---- MODULE Spec2Model ----
(***************************************************************************)
(* Identity-reconciliation pipeline of lego_inventory: the catalog store   *)
(* (parts, part_aliases, inventory), the ingestion that creates            *)
(* placeholders, the Rebrickable bulk lookup and the cleaning cascade of   *)
(* clean_instabrick_inventory.py with its per-alias commit steps.          *)
(***************************************************************************)
EXTENDS Integers, Sequences, FiniteSets, TLC

VARIABLES
    parts,          \* table parts: design_id -> name (connection's view)
    part_aliases,   \* table part_aliases: alias -> design_id
    inventory,      \* table inventory: row id -> [design_id, quantity]
    durable,        \* the three tables as of the last COMMIT
    catalog,        \* the external catalog the API answers from during a run
    pc,             \* position of the running script
    work,           \* the list the current phase iterates over
    idx,            \* loop index i of the current phase
    items,          \* remote.items() still to be processed by the current loop
    last,           \* the last commit step: its arguments and the store before it
    runlog,         \* (strategy, alias, design_id) of every commit step of the current run
    rerun,          \* TRUE while a run repeats a completed run on the store it left
    outage,         \* single-item requests that failed in the current pair of runs
    ingested,       \* number of exports and mapping files loaded so far
    start,          \* the three tables as they were when the current run started
    client,         \* the call of the Rebrickable client in progress
    pager,          \* the paginate generator in progress
    shelf,          \* tables containers, inventory.container_id and audit_log, and the last call
    parsed,         \* the last call of Status.from_any: its argument and its outcome
    resolver,       \* resolve_missing_parts.py: its position and the connections that write
    bulk,           \* the last response bulk_parts_by_bricklink mapped, and its outcome
    slicer          \* the last list a caller cut into batches, and the batches handed over

vars == <<parts, part_aliases, inventory, durable, catalog, pc, work, idx, items, last,
          runlog, rerun, outage, ingested, start, client, pager, shelf, parsed, resolver,
          bulk, slicer>>

\* the ingestion scripts and the cleaning script
pipeline_vars == <<parts, part_aliases, inventory, durable, catalog, pc, work, idx, items, last,
                   runlog, rerun, outage, ingested, start>>

\* what the ingestion and cleaning scripts leave alone
side_vars == <<client, pager, shelf, parsed, resolver, bulk, slicer>>

----------------------------------------------------------------------------
(* Bounds of the model *)

MaxQty == 2             \* quantities of ingested rows are 1..MaxQty
MaxIngest == 2          \* exports and mapping files loaded before a run
MaxCatalogParts == 1    \* parts of the external catalog
MaxExternalIds == 2     \* BrickLink ids of one catalog part
MaxRedirects == 1       \* other identifiers under which /parts/<id>/ answers with a part
MaxCallIds == 102       \* identifiers passed to one call of a bulk helper
MaxPages == 3           \* pages of a paginated endpoint
MaxPageLen == 2         \* results of one page
MaxContainers == 2      \* rows of table containers
MaxHeld == 1            \* inventory rows that point at a container
MaxAudit == 3           \* rows of table audit_log
MaxResults == 2         \* items of one bulk response
MaxListLen == 101       \* identifiers in a list a caller cuts into batches

(* Program constants *)

MAX_BATCH == 50
UNKNOWN == "Unknown part"

(* Identifiers are strings, kept as tuples of characters so that the regular
   expressions of the cleaning script can be evaluated on them. *)
IdUniverse == { <<"7">>, <<"7", "b">>, <<"7", "b", "p">> }

Digits == {"0", "1", "2", "3", "4", "5", "6", "7", "8", "9"}
Letters == {"a", "b", "c", "d", "e", "f", "g", "h", "i", "j", "k", "l", "m",
            "n", "o", "p", "q", "r", "s", "t", "u", "v", "w", "x", "y", "z",
            "A", "B", "C", "D", "E", "F", "G", "H", "I", "J", "K", "L", "M",
            "N", "O", "P", "Q", "R", "S", "T", "U", "V", "W", "X", "Y", "Z"}

ItemNames == {"", "Axle"}       \* ITEMNAME of an XML item ("" when missing)
ApiNames == {"Brick"}           \* names the external catalog gives
None == <<>>                    \* Python's None where an identifier is expected

----------------------------------------------------------------------------
(* Generic helpers *)

Min(a, b) == IF a < b THEN a ELSE b

Range(s) == { s[i] : i \in DOMAIN s }

Perms(S) == { f \in [1..Cardinality(S) -> S] : \A i, j \in 1..Cardinality(S) : f[i] = f[j] => i = j }

RECURSIVE SumQty(_, _)
SumQty(inv, d) ==
    IF inv = <<>> THEN 0
    ELSE (IF Head(inv).design_id = d THEN Head(inv).quantity ELSE 0) + SumQty(Tail(inv), d)

Store == [parts |-> parts, part_aliases |-> part_aliases, inventory |-> inventory]

----------------------------------------------------------------------------
(* SQL statements of the commit steps, on a store record *)

\* INSERT OR REPLACE in place of INSERT OR IGNORE
InsertOrReplacePart(s, d, n) ==
    [s EXCEPT !.parts = [x \in DOMAIN s.parts \cup {d} |-> IF x = d THEN n ELSE s.parts[x]]]

\* INSERT OR IGNORE INTO parts(design_id,name)
InsertOrIgnorePart(s, d, n) ==
    IF d \in DOMAIN s.parts THEN s
    ELSE [s EXCEPT !.parts = [x \in DOMAIN s.parts \cup {d} |-> IF x = d THEN n ELSE s.parts[x]]]

\* INSERT ... ON CONFLICT(design_id) DO UPDATE SET name = excluded.name WHERE parts.name = 'Unknown part'
insert_part(s, d, n) ==
    IF d \notin DOMAIN s.parts
    THEN [s EXCEPT !.parts = [x \in DOMAIN s.parts \cup {d} |-> IF x = d THEN n ELSE s.parts[x]]]
    ELSE IF s.parts[d] = UNKNOWN THEN [s EXCEPT !.parts[d] = n]
    ELSE s

\* INSERT OR REPLACE in place of INSERT OR IGNORE
add_part_alias_replace(s, a, d) ==
    [s EXCEPT !.part_aliases =
        [x \in DOMAIN s.part_aliases \cup {a} |-> IF x = a THEN d ELSE s.part_aliases[x]]]

\* INSERT OR IGNORE INTO part_aliases(alias,design_id); alias is the primary key
add_part_alias(s, a, d) ==
    IF a \in DOMAIN s.part_aliases THEN s
    ELSE [s EXCEPT !.part_aliases =
            [x \in DOMAIN s.part_aliases \cup {a} |-> IF x = a THEN d ELSE s.part_aliases[x]]]

\* the UPDATE without its WHERE clause
RelinkInventory_all(s, rb_id, alias) ==
    [s EXCEPT !.inventory =
        [i \in DOMAIN s.inventory |-> [s.inventory[i] EXCEPT !.design_id = rb_id]]]

\* the UPDATE with its two parameters in the wrong order
RelinkInventory_swapped(s, rb_id, alias) ==
    [s EXCEPT !.inventory =
        [i \in DOMAIN s.inventory |->
            IF s.inventory[i].design_id = rb_id
            THEN [s.inventory[i] EXCEPT !.design_id = alias]
            ELSE s.inventory[i]]]

\* UPDATE inventory SET design_id = rb_id WHERE design_id = alias
RelinkInventory(s, rb_id, alias) ==
    [s EXCEPT !.inventory =
        [i \in DOMAIN s.inventory |->
            IF s.inventory[i].design_id = alias
            THEN [s.inventory[i] EXCEPT !.design_id = rb_id]
            ELSE s.inventory[i]]]

\* the DELETE restricted to rows still named 'Unknown part'
DeletePart_unnamed(s, alias) ==
    [s EXCEPT !.parts =
        [x \in {y \in DOMAIN s.parts : y # alias \/ s.parts[y] # UNKNOWN} |-> s.parts[x]]]

\* DELETE FROM parts WHERE design_id = alias
DeletePart(s, alias) ==
    [s EXCEPT !.parts = [x \in DOMAIN s.parts \ {alias} |-> s.parts[x]]]

\* DELETE FROM part_aliases WHERE alias = ? AND design_id = ?  (alias, alias)
DeleteSelfAlias(s, alias) ==
    IF alias \in DOMAIN s.part_aliases /\ s.part_aliases[alias] = alias
    THEN [s EXCEPT !.part_aliases = [x \in DOMAIN s.part_aliases \ {alias} |-> s.part_aliases[x]]]
    ELSE s

\* the loop body without its DELETE FROM parts
reconcile_batch_keep(s, alias, rb_id, name) ==
    DeleteSelfAlias(
        RelinkInventory(
            add_part_alias(InsertOrIgnorePart(s, rb_id, name), alias, rb_id),
            rb_id, alias),
        alias)

\* body of the loop of reconcile_batch (clean_instabrick_inventory.py)
reconcile_batch_commit(s, alias, rb_id, name) ==
    DeleteSelfAlias(
        DeletePart(
            RelinkInventory(
                add_part_alias(InsertOrIgnorePart(s, rb_id, name), alias, rb_id),
                rb_id, alias),
            alias),
        alias)

\* body of the loop of reconcile_numeric_unknowns; the same four statements
\* are inlined in phases 1c and 3 of main
reconcile_numeric_commit(s, alias, rb_id, name) ==
    DeletePart(
        RelinkInventory(
            add_part_alias(InsertOrIgnorePart(s, rb_id, name), alias, rb_id),
            rb_id, alias),
        alias)

\* migrate of import_part_mapping.py
migrate(s, bl_id, rb_id, name) ==
    DeletePart(
        RelinkInventory(
            add_part_alias(insert_part(s, rb_id, IF name = "" THEN UNKNOWN ELSE name), bl_id, rb_id),
            rb_id, bl_id),
        bl_id)

----------------------------------------------------------------------------
(* The external catalog and the Rebrickable client calls *)

ExternalIdSets == { S \in SUBSET IdUniverse : Cardinality(S) <= MaxExternalIds }

RedirectSets == { S \in SUBSET IdUniverse : Cardinality(S) <= MaxRedirects }

\* a catalog: part_num -> name, BrickLink ids, and the identifiers other than
\* part_num for which the single-part endpoint answers with this part
Catalogs ==
    { c \in UNION { [P -> [name : ApiNames, external_ids : ExternalIdSets, redirects : RedirectSets]] :
                    P \in { Q \in SUBSET IdUniverse : Cardinality(Q) <= MaxCatalogParts } } :
        \A p \in DOMAIN c : c[p].redirects \cap DOMAIN c = {} }

NoCatalog == <<>>

\* results of GET /parts/?bricklink_id__in=ids
Matched(cat, ids) == { p \in DOMAIN cat : cat[p].external_ids \cap Range(ids) # {} }

\* mapping[str(bl)] = (design_id, name) for one result, in the order of its BrickLink list
PartAssignments(cat, p) ==
    { [i \in 1..Cardinality(cat[p].external_ids) |->
          [alias |-> o[i], design_id |-> p, name |-> cat[p].name]] :
      o \in Perms(cat[p].external_ids) }

RECURSIVE Assignments(_, _)
Assignments(cat, ps) ==
    IF ps = <<>> THEN {<<>>}
    ELSE { h \o t : h \in PartAssignments(cat, Head(ps)), t \in Assignments(cat, Tail(ps)) }

\* a Python dict: a key keeps the position of its first insertion and the
\* value of its last assignment
DictPut(its, e) ==
    IF \E i \in DOMAIN its : its[i].alias = e.alias
    THEN [i \in DOMAIN its |-> IF its[i].alias = e.alias THEN e ELSE its[i]]
    ELSE Append(its, e)

RECURSIVE DictOf(_, _)
DictOf(its, assigns) ==
    IF assigns = <<>> THEN its
    ELSE DictOf(DictPut(its, Head(assigns)), Tail(assigns))

\* bulk_parts_by_bricklink: the mappings (as item sequences) the call can return
bulk_parts_by_bricklink(cat, ids) ==
    { DictOf(<<>>, a) : a \in UNION { Assignments(cat, o) : o \in Perms(Matched(cat, ids)) } }

\* get_json("/parts/<id>/"): the answers the catalog can give, a 404 when
\* it has no such part
get_part_json(cat, id) ==
    LET found == { p \in DOMAIN cat : p = id \/ id \in cat[p].redirects }
    IN  IF found = {} THEN { [status |-> 404, part_num |-> None, name |-> ""] }
        ELSE { [status |-> 200, part_num |-> p, name |-> cat[p].name] : p \in found }

----------------------------------------------------------------------------
(* Helpers of the cleaning script *)

IsDigit(c) == c \in Digits
IsLetter(c) == c \in Letters

\* number of leading digits of pid
DigitPrefix(pid) ==
    CHOOSE k \in 0..Len(pid) :
        /\ \A i \in 1..k : IsDigit(pid[i])
        /\ (k < Len(pid) => ~IsDigit(pid[k + 1]))

\* re.fullmatch(r"\d+[a-z]?", pid, re.IGNORECASE)
looks_like_bricklink_id(pid) ==
    LET k == DigitPrefix(pid)
    IN  /\ k >= 1
        /\ \/ k = Len(pid)
           \/ (k = Len(pid) - 1 /\ IsLetter(pid[Len(pid)]))

\* re.match(r'^(\d+[a-z]?)', pid, flags=re.IGNORECASE)
strip_base_alias(pid) ==
    LET k == DigitPrefix(pid)
    IN  IF k = 0 THEN None
        ELSE IF k < Len(pid) /\ IsLetter(pid[k + 1]) THEN SubSeq(pid, 1, k + 1)
        ELSE SubSeq(pid, 1, k)

\* SELECT alias FROM part_aliases WHERE alias = design_id
get_placeholders(s) == { a \in DOMAIN s.part_aliases : s.part_aliases[a] = a }

\* SELECT design_id FROM parts WHERE name = 'Unknown part'
get_unknown_design_ids(s) == { d \in DOMAIN s.parts : s.parts[d] = UNKNOWN }

\* placeholders[i : i + MAX_BATCH]
Chunk(list, i) == SubSeq(list, i + 1, Min(i + MAX_BATCH, Len(list)))

----------------------------------------------------------------------------
(* Initial state: an empty store, nothing running *)

EmptyStore == [parts |-> <<>>, part_aliases |-> <<>>, inventory |-> <<>>]

\* no call of the client in progress
NoCall == [fn |-> "none", n |-> 0, pos |-> 0, at |-> "idle", attempt |-> 0, sent |-> 0,
           lists |-> 0, listed |-> 0, singles |-> 0, status |-> 0, delay |-> 0, error |-> "",
           header |-> "", limited |-> 0]

\* paginate not called
NoPager == [pages |-> <<>>, at |-> "idle", url |-> 0, params |-> FALSE, pending |-> <<>>,
            yielded |-> <<>>, fetched |-> <<>>]

\* resolve_missing_parts.py not running
NoResolver == [fn |-> "none", at |-> "idle", items |-> <<>>, writers |-> {}, helped |-> 0,
               waited |-> FALSE, error |-> "", pre |-> EmptyStore]

\* bulk_parts_by_bricklink not called
NoBulk == [caller |-> "none", results |-> <<>>, raised |-> "", mapping |-> <<>>, aborted |-> FALSE]

\* no list cut into batches
NoSlicer == [caller |-> "none", at |-> "idle", list |-> <<>>, i |-> 0, slices |-> <<>>, raised |-> ""]

\* Status.from_any not called
NoParse == [value |-> [type |-> "none", member |-> "", text |-> <<>>],
            result |-> [member |-> "", raised |-> ""]]

\* the drawers of the database
Drawers == {1, 2}

\* labels a caller passes, as tuples of characters
Labels == { <<"A">>, <<" ", "A">>, <<"A", " ">>, <<"B">> }

\* no call of a container helper so far
NoResult == [op |-> "none", drawer_id |-> 0, container_id |-> 0, name |-> <<>>, raised |-> "",
             before |-> [containers |-> <<>>, held |-> <<>>, audit |-> <<>>]]

\* empty tables containers and audit_log, no inventory row in a container
NoShelf == [containers |-> <<>>, held |-> <<>>, audit |-> <<>>, result |-> NoResult]

NoCommit == [strategy |-> "none", alias |-> None, design_id |-> None, name |-> "", pre |-> EmptyStore]

Init ==
    /\ parts = <<>>
    /\ part_aliases = <<>>
    /\ inventory = <<>>
    /\ durable = EmptyStore
    /\ catalog = NoCatalog
    /\ pc = "idle"
    /\ work = <<>>
    /\ idx = 0
    /\ items = <<>>
    /\ last = NoCommit
    /\ runlog = {}
    /\ rerun = FALSE
    /\ outage = {}
    /\ ingested = 0
    /\ start = EmptyStore
    /\ client = NoCall
    /\ pager = NoPager
    /\ shelf = NoShelf
    /\ parsed = NoParse
    /\ resolver = NoResolver
    /\ bulk = NoBulk
    /\ slicer = NoSlicer

SetStore(s) ==
    /\ parts' = s.parts
    /\ part_aliases' = s.part_aliases
    /\ inventory' = s.inventory

\* some fixed order of the rows a SELECT returns
RECURSIVE SeqOf(_)
SeqOf(S) == IF S = {} THEN <<>> ELSE LET x == CHOOSE y \in S : TRUE IN <<x>> \o SeqOf(S \ {x})

Keys(its) == { its[i].alias : i \in DOMAIN its }
Lookup(its, k) == its[CHOOSE i \in DOMAIN its : its[i].alias = k]

----------------------------------------------------------------------------
(* Ingestion *)

\* what bulk_parts_by_bricklink([alias]) answered when the export was loaded
IngestAnswers(alias) ==
    {<<>>} \cup { <<[alias |-> alias, design_id |-> d, name |-> n]>> : d \in IdUniverse, n \in ApiNames }

\* for alias, (design_id, name) in remote.items(): insert_part; add_part_alias
RECURSIVE TranslateAll(_, _)
TranslateAll(s, its) ==
    IF its = <<>> THEN s
    ELSE TranslateAll(add_part_alias(insert_part(s, Head(its).design_id, Head(its).name),
                                     Head(its).alias, Head(its).design_id),
                      Tail(its))

\* db.insert_inventory on a connection with foreign_keys=ON: the row is
\* refused when its design_id is not in parts
insert_inventory(s, design_id, quantity) ==
    IF design_id \in DOMAIN s.parts
    THEN [s EXCEPT !.inventory = Append(s.inventory, [design_id |-> design_id, quantity |-> quantity])]
    ELSE s

\* load_xml of load_instabrick_inventory.py for an export with one loose ITEM
LoadItem(alias, itemname, quantity) ==
    /\ pc = "idle"
    /\ ingested < MaxIngest
    /\ \E remote \in (IF alias \in DOMAIN part_aliases THEN {<<>>} ELSE IngestAnswers(alias)) :
          LET s1 == TranslateAll(Store, remote)
              known == alias \in DOMAIN part_aliases \/ alias \in Keys(remote)
              s2 == IF known THEN s1
                    ELSE add_part_alias(insert_part(s1, alias, IF itemname = "" THEN UNKNOWN ELSE itemname),
                                        alias, alias)
              design_id == IF alias \in DOMAIN part_aliases THEN part_aliases[alias]
                           ELSE IF alias \in Keys(remote) THEN Lookup(remote, alias).design_id
                           ELSE alias
              s3 == insert_inventory(s2, design_id, quantity)
          IN  /\ SetStore(s3)
              /\ durable' = s3
    /\ last' = NoCommit
    /\ ingested' = ingested + 1
    /\ UNCHANGED <<catalog, pc, work, idx, items, runlog, rerun, outage, start, side_vars>>

\* main of import_part_mapping.py for a CSV with one row
ImportMapping(bl_id, rb_id, name) ==
    /\ pc = "idle"
    /\ ingested < MaxIngest
    /\ LET s1 == migrate(Store, bl_id, rb_id, name)
       IN  /\ SetStore(s1)
           /\ durable' = s1
    /\ last' = [strategy |-> "csv", alias |-> bl_id, design_id |-> rb_id, name |-> name, pre |-> Store]
    /\ ingested' = ingested + 1
    /\ UNCHANGED <<catalog, pc, work, idx, items, runlog, rerun, outage, start, side_vars>>

----------------------------------------------------------------------------
(* main of clean_instabrick_inventory.py *)

Running == pc \notin {"idle", "done", "aborted"}

CleanStart ==
    /\ pc \in {"idle", "done"}
    /\ pc' = "p1"
    /\ IF pc = "done" THEN UNCHANGED catalog ELSE catalog' \in Catalogs
    /\ work' = SeqOf(get_placeholders(Store))
    /\ idx' = 0
    /\ items' = <<>>
    /\ last' = NoCommit
    /\ runlog' = {}
    /\ rerun' = (pc = "done")
    /\ outage' = IF pc = "done" THEN outage ELSE {}
    /\ ingested' = 0
    /\ start' = Store
    /\ UNCHANGED <<parts, part_aliases, inventory, durable, side_vars>>

\* an exception of the client leaves main, or the process is stopped: what
\* the connection has not committed is rolled back
CleanAbort ==
    /\ Running
    /\ SetStore(durable)
    /\ pc' = "aborted"
    /\ work' = <<>>
    /\ idx' = 0
    /\ items' = <<>>
    /\ last' = NoCommit
    /\ UNCHANGED <<durable, catalog, runlog, rerun, outage, ingested, start, side_vars>>

\* remote = bulk_parts_by_bricklink(chunk)
BulkCall(at, next) ==
    /\ pc = at
    /\ idx < Len(work)
    /\ items' \in bulk_parts_by_bricklink(catalog, Chunk(work, idx))
    /\ pc' = next
    /\ last' = NoCommit
    /\ UNCHANGED <<parts, part_aliases, inventory, durable, catalog, work, idx, runlog, rerun, outage, ingested, start, side_vars>>

\* the end of a chunk without its conn.commit()
ChunkEnd_uncommitted(at, next) ==
    /\ pc = at
    /\ items = <<>>
    /\ idx' = idx + MAX_BATCH
    /\ pc' = next
    /\ last' = NoCommit
    /\ UNCHANGED <<parts, part_aliases, inventory, durable, catalog, work, items, runlog, rerun, outage, ingested, start, side_vars>>

\* conn.commit() at the end of a chunk
ChunkEnd(at, next) ==
    /\ pc = at
    /\ items = <<>>
    /\ durable' = Store
    /\ idx' = idx + MAX_BATCH
    /\ pc' = next
    /\ last' = NoCommit
    /\ UNCHANGED <<parts, part_aliases, inventory, catalog, work, items, runlog, rerun, outage, ingested, start, side_vars>>

\* asked: the alias is one of the unresolved identifiers the strategy was given
Record(strategy, e, asked) ==
    /\ last' = [strategy |-> strategy, alias |-> e.alias, design_id |-> e.design_id,
                name |-> e.name, pre |-> Store]
    /\ runlog' = runlog \cup {[strategy |-> strategy, alias |-> e.alias,
                                design_id |-> e.design_id, asked |-> asked]}

\* Phase 1: reconcile_batch(conn, chunk)
Phase1Call == BulkCall("p1", "p1_items")

Phase1Commit ==
    /\ pc = "p1_items"
    /\ items # <<>>
    /\ LET e == Head(items)
       IN  /\ SetStore(reconcile_batch_commit(Store, e.alias, e.design_id, e.name))
           /\ Record("bulk", e, e.alias \in Range(work))
    /\ items' = Tail(items)
    /\ UNCHANGED <<durable, catalog, pc, work, idx, rerun, outage, ingested, start, side_vars>>

Phase1ChunkEnd == ChunkEnd("p1_items", "p1")

\* Phase 1b: reconcile_numeric_unknowns(conn, get_unknown_design_ids(conn))
Phase1bStart ==
    /\ pc = "p1"
    /\ idx >= Len(work)
    /\ pc' = "p1b"
    /\ work' = SeqOf({ pid \in get_unknown_design_ids(Store) : looks_like_bricklink_id(pid) })
    /\ idx' = 0
    /\ last' = NoCommit
    /\ UNCHANGED <<parts, part_aliases, inventory, durable, catalog, items, runlog, rerun, outage, ingested, start, side_vars>>

Phase1bCall == BulkCall("p1b", "p1b_items")

Phase1bCommit ==
    /\ pc = "p1b_items"
    /\ items # <<>>
    /\ LET e == Head(items)
       IN  /\ SetStore(reconcile_numeric_commit(Store, e.alias, e.design_id, e.name))
           /\ Record("numeric", e, e.alias \in Range(work))
    /\ items' = Tail(items)
    /\ UNCHANGED <<durable, catalog, pc, work, idx, rerun, outage, ingested, start, side_vars>>

Phase1bChunkEnd == ChunkEnd("p1b_items", "p1b")

\* Phase 1c: strip complex-suffix aliases
Phase1cStart ==
    /\ pc = "p1b"
    /\ idx >= Len(work)
    /\ pc' = "p1c"
    /\ work' \in Perms(get_unknown_design_ids(Store))
    /\ idx' = 0
    /\ last' = NoCommit
    /\ UNCHANGED <<parts, part_aliases, inventory, durable, catalog, items, runlog, rerun, outage, ingested, start, side_vars>>

\* whether the single-item request `key` fails in this run; a repeated run
\* gets the answers of the run it repeats
CallFails(key, fails) ==
    /\ key \in outage => fails
    /\ (rerun /\ key \notin outage) => ~fails
    /\ outage' = IF fails THEN outage \cup {key} ELSE outage

Phase1cAlias ==
    /\ pc = "p1c"
    /\ idx < Len(work)
    /\ LET alias == work[idx + 1]
           base == strip_base_alias(alias)
       IN  IF base # None /\ base # alias
           THEN \E fails \in BOOLEAN :
                  /\ CallFails(<<"bulk", base>>, fails)
                  /\ \E remote \in bulk_parts_by_bricklink(catalog, <<base>>) :
                       IF ~fails /\ base \in Keys(remote)
                       THEN LET e == [alias |-> alias, design_id |-> Lookup(remote, base).design_id,
                                      name |-> Lookup(remote, base).name]
                            IN  /\ SetStore(reconcile_numeric_commit(Store, alias, e.design_id, e.name))
                                /\ Record("strip", e, TRUE)
                       ELSE /\ UNCHANGED <<parts, part_aliases, inventory, runlog>>
                            /\ last' = NoCommit
           ELSE /\ UNCHANGED <<parts, part_aliases, inventory, runlog, outage>>
                /\ last' = NoCommit
    /\ idx' = idx + 1
    /\ UNCHANGED <<durable, catalog, pc, work, items, rerun, ingested, start, side_vars>>

\* if stripped_fixed: conn.commit(); then Phase 2 starts
Phase2Start ==
    /\ pc = "p1c"
    /\ idx >= Len(work)
    /\ durable' = Store
    /\ pc' = "p2"
    /\ work' = SeqOf(get_unknown_design_ids(Store))
    /\ idx' = 0
    /\ last' = NoCommit
    /\ UNCHANGED <<parts, part_aliases, inventory, catalog, items, runlog, rerun, outage, ingested, start, side_vars>>

\* UPDATE parts SET name = ? WHERE design_id = ? AND name = 'Unknown part'
UpdateName(s, pid, name) ==
    IF pid \in DOMAIN s.parts /\ s.parts[pid] = UNKNOWN
    THEN [s EXCEPT !.parts[pid] = name]
    ELSE s

RECURSIVE update_names_batch(_, _)
update_names_batch(s, its) ==
    IF its = <<>> THEN s
    ELSE update_names_batch(
            IF Head(its).name = "" THEN s ELSE UpdateName(s, Head(its).alias, Head(its).name),
            Tail(its))

\* Phase 2: fill in names via bulk_parts_by_bricklink on design_ids
Phase2Batch ==
    /\ pc = "p2"
    /\ idx < Len(work)
    /\ \E remote \in bulk_parts_by_bricklink(catalog, Chunk(work, idx)) :
          LET s1 == update_names_batch(Store, remote)
          IN  /\ SetStore(s1)
              /\ durable' = s1
    /\ idx' = idx + MAX_BATCH
    /\ last' = NoCommit
    /\ UNCHANGED <<catalog, pc, work, items, runlog, rerun, outage, ingested, start, side_vars>>

\* Phase 3: direct lookup for any still unknown parts
Phase3Start ==
    /\ pc = "p2"
    /\ idx >= Len(work)
    /\ pc' = "p3"
    /\ work' \in Perms(get_unknown_design_ids(Store))
    /\ idx' = 0
    /\ last' = NoCommit
    /\ UNCHANGED <<parts, part_aliases, inventory, durable, catalog, items, runlog, rerun, outage, ingested, start, side_vars>>

Phase3Alias ==
    /\ pc = "p3"
    /\ idx < Len(work)
    /\ LET alias == work[idx + 1]
       IN  \E fails \in BOOLEAN, part_data \in get_part_json(catalog, alias) :
             /\ CallFails(<<"part", alias>>, fails)
             /\ IF fails \/ part_data.status = 404 \/ part_data.part_num = None \/ part_data.name = ""
                THEN /\ UNCHANGED <<parts, part_aliases, inventory, durable, runlog>>
                     /\ last' = NoCommit
                ELSE IF part_data.part_num # alias
                THEN LET e == [alias |-> alias, design_id |-> part_data.part_num, name |-> part_data.name]
                         s1 == reconcile_numeric_commit(Store, alias, e.design_id, e.name)
                     IN  /\ SetStore(s1)
                         /\ durable' = s1
                         /\ Record("direct", e, TRUE)
                ELSE LET s1 == UpdateName(Store, alias, part_data.name)
                     IN  /\ SetStore(s1)
                         /\ durable' = s1
                         /\ last' = NoCommit
                         /\ UNCHANGED runlog
    /\ idx' = idx + 1
    /\ UNCHANGED <<catalog, pc, work, items, rerun, ingested, start, side_vars>>

CleanDone ==
    /\ pc = "p3"
    /\ idx >= Len(work)
    /\ pc' = "done"
    /\ work' = <<>>
    /\ idx' = 0
    /\ last' = NoCommit
    /\ UNCHANGED <<parts, part_aliases, inventory, durable, catalog, items, runlog, rerun,
                   outage, ingested, start, side_vars>>

Next ==
    \/ \E alias \in IdUniverse, itemname \in ItemNames, quantity \in 1..MaxQty :
          LoadItem(alias, itemname, quantity)
    \/ \E bl_id \in IdUniverse, rb_id \in IdUniverse, name \in ItemNames :
          ImportMapping(bl_id, rb_id, name)
    \/ CleanStart
    \/ CleanAbort
    \/ Phase1Call
    \/ Phase1Commit
    \/ Phase1ChunkEnd
    \/ Phase1bStart
    \/ Phase1bCall
    \/ Phase1bCommit
    \/ Phase1bChunkEnd
    \/ Phase1cStart
    \/ Phase1cAlias
    \/ Phase2Start
    \/ Phase2Batch
    \/ Phase3Start
    \/ Phase3Alias
    \/ CleanDone

Spec == Init /\ [][Next]_vars

----------------------------------------------------------------------------
(* The Rebrickable client: utils/rebrickable_api.py *)

\* one attempt more than the documented maximum
MAX_RETRIES_more == 5 + 1
MAX_RETRIES == 5
RETRY_STATUS == {429, 502, 503, 504}

\* the limits the two bulk helpers assert
MAX_BRICKLINK_IDS == 50
MAX_PART_NUMS == 100

\* status codes the server answers with
Statuses == {200, 404, 429, 500, 502, 503, 504}

\* Retry-After header of a response: missing, seconds, or an HTTP date
RetryAfterHeaders == {"", "2", "Wed"}

\* random.uniform(0, 0.5), in milliseconds
Jitters == {0, 500}

\* int(text) for the texts that occur; it raises ValueError for the others
IsIntText(text) == text \in {"2", "5"}
IntOf(text) == CASE text = "2" -> 2 [] text = "5" -> 5

\* resp.headers.get("Retry-After", "5")
retry_after(header) == IF header = "" THEN "5" ELSE header

\* exponential back-off for every status, the header ignored
base_delay_backoff(status, attempt, header) ==
    (2 ^ (attempt - 1)) * 1000

\* the delay in milliseconds before the jitter is added
base_delay(status, attempt, header) ==
    IF status = 429 THEN IntOf(retry_after(header)) * 1000
    ELSE (2 ^ (attempt - 1)) * 1000

\* the loop body taking every status below 500 for a success
get_json_pass_lenient(attempt, status) ==
    IF status < 500 THEN "return"
    ELSE IF status \in RETRY_STATUS /\ attempt < MAX_RETRIES THEN "continue"
    ELSE "raise_for_status"

\* one pass of the loop of get_json for a response with `status`
get_json_pass(attempt, status) ==
    IF status < 400 THEN "return"
    ELSE IF status \in RETRY_STATUS /\ attempt < MAX_RETRIES THEN "continue"
    ELSE "raise_for_status"

\* assert len(ids) <= limit
batch_unchecked(n, limit) == TRUE
batch_allowed(n, limit) == n <= limit

BeginCall(fn, n) == [NoCall EXCEPT !.fn = fn, !.n = n, !.at = "request", !.attempt = 1]

Refused(fn, n) == [NoCall EXCEPT !.fn = fn, !.n = n, !.at = "raised", !.error = "AssertionError"]

\* get_json(endpoint) called on its own
CallGetJson ==
    /\ client.at = "idle"
    /\ client' = BeginCall("get_json", 1)
    /\ UNCHANGED <<pipeline_vars, pager, shelf, parsed, resolver, bulk, slicer>>

\* bulk_parts_by_bricklink(bricklink_ids) with n identifiers
CallBulkPartsByBricklink(n) ==
    /\ client.at = "idle"
    /\ client' = IF batch_allowed(n, MAX_BRICKLINK_IDS)
                 THEN BeginCall("bulk_parts_by_bricklink", n)
                 ELSE Refused("bulk_parts_by_bricklink", n)
    /\ UNCHANGED <<pipeline_vars, pager, shelf, parsed, resolver, bulk, slicer>>

\* bulk_parts(design_ids) with n identifiers
CallBulkParts(n) ==
    /\ client.at = "idle"
    /\ client' = IF batch_allowed(n, MAX_PART_NUMS)
                 THEN BeginCall("bulk_parts", n)
                 ELSE Refused("bulk_parts", n)
    /\ UNCHANGED <<pipeline_vars, pager, shelf, parsed, resolver, bulk, slicer>>

\* the request just sent, counted: a list request carries all the n
\* identifiers of the call, _single_part_name asks for one
Sent(c) ==
    IF c.fn = "get_json" THEN [c EXCEPT !.sent = @ + 1]
    ELSE IF c.pos = 0 THEN [c EXCEPT !.sent = @ + 1, !.lists = @ + 1, !.listed = c.n]
    ELSE [c EXCEPT !.sent = @ + 1, !.singles = 1]

\* for pid in design_ids: name = _single_part_name(pid)
NextSingle(c) ==
    IF c.pos < c.n
    THEN [c EXCEPT !.pos = @ + 1, !.at = "request", !.attempt = 1, !.sent = 0, !.status = 0,
                   !.delay = 0, !.header = "", !.limited = 0]
    ELSE [c EXCEPT !.at = "returned"]

\* what the caller of get_json does with its result or its HTTPError
AfterGetJson(c, ok) ==
    IF c.fn = "bulk_parts" /\ c.pos = 0 /\ ~ok /\ c.status \in RETRY_STATUS THEN NextSingle(c)
    ELSE IF c.fn = "bulk_parts" /\ c.pos >= 1 /\ (ok \/ c.status = 404) THEN NextSingle(c)
    ELSE IF ok THEN [c EXCEPT !.at = "returned"]
    ELSE [c EXCEPT !.at = "raised", !.error = "HTTPError"]

\* requests.get answers with a status code
Respond(status, header, jitter) ==
    /\ client.at = "request"
    /\ LET c == [Sent(client) EXCEPT !.status = status]
           pass == get_json_pass(client.attempt, status)
       IN  client' =
             IF pass = "return" THEN AfterGetJson(c, TRUE)
             ELSE IF pass = "raise_for_status" THEN AfterGetJson(c, FALSE)
             ELSE IF status = 429 /\ ~IsIntText(retry_after(header))
             THEN [c EXCEPT !.at = "raised", !.error = "ValueError", !.header = header]
             ELSE [c EXCEPT !.at = "sleep",
                            !.delay = base_delay(status, client.attempt, header) + jitter,
                            !.header = IF status = 429 THEN header ELSE "",
                            !.limited = IF status = 429 THEN @ + 1 ELSE @]
    /\ UNCHANGED <<pipeline_vars, pager, shelf, parsed, resolver, bulk, slicer>>

\* requests.get raises (connection error, timeout): nothing catches it
RequestFails ==
    /\ client.at = "request"
    /\ client' = [Sent(client) EXCEPT !.at = "raised", !.error = "ConnectionError"]
    /\ UNCHANGED <<pipeline_vars, pager, shelf, parsed, resolver, bulk, slicer>>

\* time.sleep(delay) is over; continue with the next attempt of the loop
Wake ==
    /\ client.at = "sleep"
    /\ client' = IF client.attempt < MAX_RETRIES
                 THEN [client EXCEPT !.at = "request", !.attempt = @ + 1, !.status = 0, !.delay = 0,
                                     !.header = ""]
                 ELSE [client EXCEPT !.at = "raised", !.error = "RuntimeError"]
    /\ UNCHANGED <<pipeline_vars, pager, shelf, parsed, resolver, bulk, slicer>>

\* the call has returned or raised; the caller goes on to its next call
CallEnds ==
    /\ client.at \in {"returned", "raised"}
    /\ client' = NoCall
    /\ UNCHANGED <<pipeline_vars, pager, shelf, parsed, resolver, bulk, slicer>>

NextClient ==
    \/ CallGetJson
    \/ \E n \in 0..MaxCallIds : CallBulkPartsByBricklink(n)
    \/ \E n \in 0..MaxCallIds : CallBulkParts(n)
    \/ \E status \in Statuses, header \in RetryAfterHeaders, jitter \in Jitters :
          Respond(status, header, jitter)
    \/ RequestFails
    \/ Wake
    \/ CallEnds

SpecClient == Init /\ [][NextClient]_vars

----------------------------------------------------------------------------
(* paginate of utils/rebrickable_api.py *)

\* entries of a "results" list
ResultItems == {"a", "b"}

\* the "results" lists of a page; a page without the field gives []
ResultLists == UNION { [1..n -> ResultItems] : n \in 0..MaxPageLen }

\* the pages of an endpoint: page 1 is the endpoint itself, "next" is the
\* number of a later page, or 0 when the field is absent
PageChains ==
    UNION { { ps \in [1..n -> [results : ResultLists, next : 0..n]] :
                \A i \in 1..n : ps[i].next = 0 \/ ps[i].next > i } : n \in 1..MaxPages }

\* paginate(endpoint, params=...) is called and the generator is consumed
CallPaginate(pages) ==
    /\ pager.at = "idle"
    /\ pager' = [NoPager EXCEPT !.pages = pages, !.at = "fetch", !.url = 1, !.params = TRUE]
    /\ UNCHANGED <<pipeline_vars, client, shelf, parsed, resolver, bulk, slicer>>

\* data = get_json(url, params=params, timeout=timeout)
PageFetch ==
    /\ pager.at = "fetch"
    /\ pager' = [pager EXCEPT !.at = "yield",
                              !.pending = pager.pages[pager.url].results,
                              !.fetched = Append(@, [page |-> pager.url, params |-> pager.params])]
    /\ UNCHANGED <<pipeline_vars, client, shelf, parsed, resolver, bulk, slicer>>

\* get_json raises: the exception leaves the generator
PageFetchFails ==
    /\ pager.at = "fetch"
    /\ pager' = [pager EXCEPT !.at = "raised",
                              !.fetched = Append(@, [page |-> pager.url, params |-> pager.params])]
    /\ UNCHANGED <<pipeline_vars, client, shelf, parsed, resolver, bulk, slicer>>

\* yield from data.get("results", []): one item
PageYield ==
    /\ pager.at = "yield"
    /\ pager.pending # <<>>
    /\ pager' = [pager EXCEPT !.yielded = Append(@, Head(pager.pending)),
                              !.pending = Tail(@)]
    /\ UNCHANGED <<pipeline_vars, client, shelf, parsed, resolver, bulk, slicer>>

\* the loop ending at the first page without results
PageNext_stop_on_empty ==
    /\ pager.at = "yield"
    /\ pager.pending = <<>>
    /\ LET next == IF pager.pages[pager.url].results = <<>> THEN 0
                   ELSE pager.pages[pager.url].next
       IN  pager' = [pager EXCEPT !.url = next, !.params = FALSE,
                                  !.at = IF next = 0 THEN "done" ELSE "fetch"]
    /\ UNCHANGED <<pipeline_vars, client, shelf, parsed, resolver, bulk, slicer>>

\* url = data.get("next"); params = None; while url
PageNext ==
    /\ pager.at = "yield"
    /\ pager.pending = <<>>
    /\ LET next == pager.pages[pager.url].next
       IN  pager' = [pager EXCEPT !.url = next, !.params = FALSE,
                                  !.at = IF next = 0 THEN "done" ELSE "fetch"]
    /\ UNCHANGED <<pipeline_vars, client, shelf, parsed, resolver, bulk, slicer>>

\* the consumer drops the generator
PagerEnds ==
    /\ pager.at \in {"done", "raised"}
    /\ pager' = NoPager
    /\ UNCHANGED <<pipeline_vars, client, shelf, parsed, resolver, bulk, slicer>>

NextPaginate ==
    \/ \E pages \in PageChains : CallPaginate(pages)
    \/ PageFetch
    \/ PageFetchFails
    \/ PageYield
    \/ PageNext
    \/ PagerEnds

SpecPaginate == Init /\ [][NextPaginate]_vars

----------------------------------------------------------------------------
(* Drawers and containers: the CRUD helpers of infra/db/inventory_db.py.
   A container's id is its position in shelf.containers (rows are never
   deleted, so lastrowid is the number of rows); row_index and col_index are
   left NULL by every call. *)

\* the characters str.strip() removes
Whitespace == {" ", "\t", "\n"}

\* str.strip(): leading and trailing whitespace removed
RECURSIVE lstrip(_)
lstrip(s) == IF s # <<>> /\ Head(s) \in Whitespace THEN lstrip(Tail(s)) ELSE s

RECURSIVE rstrip(_)
rstrip(s) ==
    IF s # <<>> /\ s[Len(s)] \in Whitespace THEN rstrip(SubSeq(s, 1, Len(s) - 1)) ELSE s

strip(s) == rstrip(lstrip(s))

\* SELECT id FROM containers WHERE drawer_id=? AND name=? AND deleted_at IS NULL,
\* any row other than exclude_id
\* the duplicate check with the deleted_at filter inverted
container_duplicate_exists_deleted(cs, drawer_id, name, exclude_id) ==
    \E i \in 1..Len(cs) :
        /\ cs[i].drawer_id = drawer_id
        /\ cs[i].name = strip(name)
        /\ cs[i].deleted
        /\ i # exclude_id

container_duplicate_exists(cs, drawer_id, name, exclude_id) ==
    \E i \in 1..Len(cs) :
        /\ cs[i].drawer_id = drawer_id
        /\ cs[i].name = strip(name)
        /\ ~cs[i].deleted
        /\ i # exclude_id

\* the unique index idx_containers_drawer_name_active refuses the row cid as (drawer_id, name)
IndexRefuses(cs, cid, drawer_id, name) ==
    \E i \in 1..Len(cs) :
        i # cid /\ ~cs[i].deleted /\ cs[i].drawer_id = drawer_id /\ cs[i].name = name

\* _audit: one more row of audit_log
Audited(entity_id, action) ==
    Append(shelf.audit, [entity_id |-> entity_id, action |-> action])

\* what a call leaves behind: its arguments, the exception it raised and the tables before it
Outcome(op, drawer_id, container_id, name, raised) ==
    [op |-> op, drawer_id |-> drawer_id, container_id |-> container_id, name |-> name,
     raised |-> raised,
     before |-> [containers |-> shelf.containers, held |-> shelf.held, audit |-> shelf.audit]]

\* create_container without name.strip() in either place
create_container_raw(drawer_id, name) ==
    LET cid == Len(shelf.containers) + 1
        dup == \E i \in 1..Len(shelf.containers) :
                   /\ shelf.containers[i].drawer_id = drawer_id
                   /\ shelf.containers[i].name = name
                   /\ ~shelf.containers[i].deleted
    IN  /\ IF dup
           THEN shelf' = [shelf EXCEPT !.result =
                    Outcome("create_container", drawer_id, 0, name, "DuplicateLabelError")]
           ELSE /\ cid <= MaxContainers
                /\ Len(shelf.audit) < MaxAudit
                /\ shelf' = [shelf EXCEPT
                       !.containers = Append(@, [drawer_id |-> drawer_id, name |-> name,
                                                 deleted |-> FALSE]),
                       !.audit = Audited(cid, "create"),
                       !.result = Outcome("create_container", drawer_id, cid, name, "")]
        /\ UNCHANGED <<pipeline_vars, client, pager, parsed, resolver, bulk, slicer>>

create_container(drawer_id, name) ==
    LET stripped == strip(name)
        cid == Len(shelf.containers) + 1
    IN  /\ IF container_duplicate_exists(shelf.containers, drawer_id, stripped, 0)
           THEN shelf' = [shelf EXCEPT !.result =
                    Outcome("create_container", drawer_id, 0, name, "DuplicateLabelError")]
           ELSE /\ cid <= MaxContainers
                /\ Len(shelf.audit) < MaxAudit
                /\ shelf' = [shelf EXCEPT
                       !.containers = Append(@, [drawer_id |-> drawer_id, name |-> stripped,
                                                 deleted |-> FALSE]),
                       !.audit = Audited(cid, "create"),
                       !.result = Outcome("create_container", drawer_id, cid, name, "")]
        /\ UNCHANGED <<pipeline_vars, client, pager, parsed, resolver, bulk, slicer>>

\* update_container(container_id, name=..., drawer_id=...): None for a field not passed
update_container(container_id, name, drawer_id) ==
    LET cs == shelf.containers
        before == cs[container_id]
        new_drawer == IF drawer_id = 0 THEN before.drawer_id ELSE drawer_id
        new_name == IF name = None THEN before.name ELSE name
    IN  /\ ~(name = None /\ drawer_id = 0)
        /\ container_id \in 1..Len(cs)
        /\ IF container_duplicate_exists(cs, new_drawer, new_name, container_id)
           THEN shelf' = [shelf EXCEPT !.result =
                    Outcome("update_container", drawer_id, container_id, name,
                            "DuplicateLabelError")]
           ELSE IF ~before.deleted /\ IndexRefuses(cs, container_id, new_drawer, new_name)
           THEN shelf' = [shelf EXCEPT !.result =
                    Outcome("update_container", drawer_id, container_id, name,
                            "IntegrityError")]
           ELSE /\ Len(shelf.audit) < MaxAudit
                /\ shelf' = [shelf EXCEPT
                       !.containers[container_id].drawer_id = new_drawer,
                       !.containers[container_id].name = new_name,
                       !.audit = Audited(container_id, "update"),
                       !.result = Outcome("update_container", drawer_id, container_id, name, "")]
        /\ UNCHANGED <<pipeline_vars, client, pager, parsed, resolver, bulk, slicer>>

soft_delete_container(container_id) ==
    LET cnt == Cardinality({k \in 1..Len(shelf.held) : shelf.held[k] = container_id})
    IN  /\ IF cnt > 0
           THEN shelf' = [shelf EXCEPT !.result =
                    Outcome("soft_delete_container", 0, container_id, <<>>,
                            "InventoryConstraintError")]
           ELSE /\ Len(shelf.audit) < MaxAudit
                /\ shelf' = [shelf EXCEPT
                       !.containers = [i \in 1..Len(@) |->
                            IF i = container_id THEN [@[i] EXCEPT !.deleted = TRUE] ELSE @[i]],
                       !.audit = Audited(container_id, "soft_delete"),
                       !.result = Outcome("soft_delete_container", 0, container_id, <<>>, "")]
        /\ UNCHANGED <<pipeline_vars, client, pager, parsed, resolver, bulk, slicer>>

restore_container(container_id) ==
    LET cs == shelf.containers
    IN  /\ IF /\ container_id \in 1..Len(cs)
              /\ cs[container_id].deleted
              /\ IndexRefuses(cs, container_id, cs[container_id].drawer_id,
                              cs[container_id].name)
           THEN shelf' = [shelf EXCEPT !.result =
                    Outcome("restore_container", 0, container_id, <<>>, "IntegrityError")]
           ELSE /\ Len(shelf.audit) < MaxAudit
                /\ shelf' = [shelf EXCEPT
                       !.containers = [i \in 1..Len(@) |->
                            IF i = container_id THEN [@[i] EXCEPT !.deleted = FALSE] ELSE @[i]],
                       !.audit = Audited(container_id, "restore"),
                       !.result = Outcome("restore_container", 0, container_id, <<>>, "")]
        /\ UNCHANGED <<pipeline_vars, client, pager, parsed, resolver, bulk, slicer>>

\* an inventory row tied to container_id; foreign keys are ON
add_loose_inventory_with_container(container_id) ==
    /\ IF container_id \in 1..Len(shelf.containers)
       THEN /\ Len(shelf.held) < MaxHeld
            /\ shelf' = [shelf EXCEPT
                   !.held = Append(@, container_id),
                   !.result = Outcome("add_loose_inventory_with_container", 0, container_id,
                                      <<>>, "")]
       ELSE shelf' = [shelf EXCEPT !.result =
                Outcome("add_loose_inventory_with_container", 0, container_id, <<>>,
                        "IntegrityError")]
    /\ UNCHANGED <<pipeline_vars, client, pager, parsed, resolver, bulk, slicer>>

\* POST /api/containers/<source_id>/merge_move: the inventory rows of the
\* source are moved to the target, whatever the target is, and the source
\* is soft-deleted; foreign keys are ON, so moving rows to an id that is
\* not in containers raises and the handler answers 500
merge_move(source_id, target_id) ==
    LET cs == shelf.containers
        moved == {k \in 1..Len(shelf.held) : shelf.held[k] = source_id}
    IN  /\ IF target_id = 0
           THEN shelf' = [shelf EXCEPT !.result =
                    Outcome("merge_move", 0, source_id, <<>>, "400")]
           ELSE IF moved # {} /\ target_id \notin 1..Len(cs)
           THEN shelf' = [shelf EXCEPT !.result =
                    Outcome("merge_move", 0, source_id, <<>>, "IntegrityError")]
           ELSE /\ Len(shelf.audit) < MaxAudit
                /\ shelf' = [shelf EXCEPT
                       !.held = [k \in 1..Len(@) |-> IF k \in moved THEN target_id ELSE @[k]],
                       !.containers = [i \in 1..Len(@) |->
                            IF i = source_id THEN [@[i] EXCEPT !.deleted = TRUE] ELSE @[i]],
                       !.audit = Audited(source_id, "merge_move"),
                       !.result = Outcome("merge_move", 0, source_id, <<>>, "")]
        /\ UNCHANGED <<pipeline_vars, client, pager, parsed, resolver, bulk, slicer>>

NextContainers ==
    \/ \E d \in Drawers, n \in Labels : create_container(d, n)
    \/ \E c \in 1..MaxContainers, n \in Labels \cup {None}, d \in Drawers \cup {0} :
           update_container(c, n, d)
    \/ \E c \in 1..MaxContainers : soft_delete_container(c)
    \/ \E c \in 1..MaxContainers : restore_container(c)
    \/ \E c \in 1..MaxContainers : add_loose_inventory_with_container(c)
    \/ \E c \in 1..MaxContainers, t \in 0..MaxContainers : merge_move(c, t)

SpecContainers == Init /\ [][NextContainers]_vars

----------------------------------------------------------------------------
(* Status.from_any of core/enums.py.  Strings are tuples of characters. *)

\* class Status(Enum): the members in definition order
Status == <<
    [member |-> "BUILT", name |-> <<"B", "U", "I", "L", "T">>,
     value |-> <<"b", "u", "i", "l", "t">>],
    [member |-> "IN_BOX", name |-> <<"I", "N", "_", "B", "O", "X">>,
     value |-> <<"i", "n", "_", "b", "o", "x">>],
    [member |-> "WIP", name |-> <<"W", "I", "P">>,
     value |-> <<"w", "i", "p">>],
    [member |-> "LOOSE", name |-> <<"L", "O", "O", "S", "E">>,
     value |-> <<"l", "o", "o", "s", "e", "_", "p", "a", "r", "t", "s">>],
    [member |-> "TEARDOWN", name |-> <<"T", "E", "A", "R", "D", "O", "W", "N">>,
     value |-> <<"t", "e", "a", "r", "d", "o", "w", "n">>] >>

UpperCase == <<"A", "B", "C", "D", "E", "F", "G", "H", "I", "J", "K", "L", "M", "N", "O", "P", "Q", "R", "S", "T", "U", "V", "W", "X", "Y", "Z">>
LowerCase == <<"a", "b", "c", "d", "e", "f", "g", "h", "i", "j", "k", "l", "m", "n", "o", "p", "q", "r", "s", "t", "u", "v", "w", "x", "y", "z">>

\* str.lower() and str.upper() on the characters of the inputs
lower(s) ==
    [i \in 1..Len(s) |->
        IF \E k \in 1..Len(UpperCase) : UpperCase[k] = s[i]
        THEN LowerCase[CHOOSE k \in 1..Len(UpperCase) : UpperCase[k] = s[i]]
        ELSE s[i]]

upper(s) ==
    [i \in 1..Len(s) |->
        IF \E k \in 1..Len(LowerCase) : LowerCase[k] = s[i]
        THEN UpperCase[CHOOSE k \in 1..Len(LowerCase) : LowerCase[k] = s[i]]
        ELSE s[i]]

\* the words the inputs are built from: member values, legacy phrases and others
Words == {
    <<"b", "u", "i", "l", "t">>,
    <<"i", "n", "_", "b", "o", "x">>,
    <<"w", "i", "p">>,
    <<"l", "o", "o", "s", "e", "_", "p", "a", "r", "t", "s">>,
    <<"t", "e", "a", "r", "d", "o", "w", "n">>,
    <<"l", "o", "o", "s", "e">>,
    <<"w", "o", "r", "k", " ", "i", "n", " ", "p", "r", "o", "g", "r", "e", "s", "s">>,
    <<"i", "n", " ", "b", "o", "x">>,
    <<>>,
    <<"n", "o", "t", "_", "a", "_", "s", "t", "a", "t", "u", "s">>,
    <<"l", "o", "o", "s", "e", " ", "p", "a", "r", "t", "s">>,
    <<"w", "o", "r", "k", "_", "i", "n", "_", "p", "r", "o", "g", "r", "e", "s", "s">>,
    <<"i", "n", "b", "o", "x">>,
    <<"i", "n", " ", " ", "b", "o", "x">> }

\* a word as written by a caller: in lower case, in upper case or capitalised
Cased(w) == {w, upper(w), IF w = <<>> THEN w ELSE upper(SubSeq(w, 1, 1)) \o Tail(w)}

\* a word with whitespace around it
Padded(w) == {w, <<" ">> \o w, w \o <<" ">>, <<"\t">> \o w \o <<" ", "\n">>}

Texts == UNION {UNION {Padded(c) : c \in Cased(w)} : w \in Words}

\* the arguments of from_any: a member, a string, None, a number, a container
StatusInputs ==
    {[type |-> "Status", member |-> Status[k].member, text |-> <<>>] : k \in 1..Len(Status)}
    \cup {[type |-> "str", member |-> "", text |-> t] : t \in Texts}
    \cup {[type |-> ty, member |-> "", text |-> <<>>] : ty \in {"NoneType", "int", "dict", "list"}}

Returns(m) == [member |-> m, raised |-> ""]
Raises(e) == [member |-> "", raised |-> e]

\* legacy_map
legacy_map ==
    << [key |-> <<"w", "o", "r", "k", " ", "i", "n", " ", "p", "r", "o", "g", "r", "e", "s", "s">>, member |-> "WIP"],
       [key |-> <<"l", "o", "o", "s", "e">>, member |-> "LOOSE"],
       [key |-> <<"l", "o", "o", "s", "e", "_", "p", "a", "r", "t", "s">>, member |-> "LOOSE"],
       [key |-> <<"i", "n", " ", "b", "o", "x">>, member |-> "IN_BOX"] >>

\* for member in cls: the first member whose value or lower-cased name is normalized
MemberScan(normalized) ==
    LET hits == {k \in 1..Len(Status) :
                    Status[k].value = normalized \/ lower(Status[k].name) = normalized}
    IN  IF hits = {}
        THEN Raises("ValueError")
        ELSE Returns(Status[CHOOSE k \in hits : \A j \in hits : k <= j].member)

\* from_any with normalized = value.lower()
from_any_unstripped(value) ==
    IF value.type = "Status" THEN Returns(value.member)
    ELSE IF value.type = "str"
    THEN LET normalized == lower(value.text)
         IN  IF \E k \in 1..Len(legacy_map) : legacy_map[k].key = normalized
             THEN Returns(legacy_map[CHOOSE k \in 1..Len(legacy_map) :
                                        legacy_map[k].key = normalized].member)
             ELSE MemberScan(normalized)
    ELSE Raises("ValueError")

from_any(value) ==
    IF value.type = "Status" THEN Returns(value.member)
    ELSE IF value.type = "str"
    THEN LET normalized == lower(strip(value.text))
         IN  IF \E k \in 1..Len(legacy_map) : legacy_map[k].key = normalized
             THEN Returns(legacy_map[CHOOSE k \in 1..Len(legacy_map) :
                                        legacy_map[k].key = normalized].member)
             ELSE MemberScan(normalized)
    ELSE Raises("ValueError")

CallFromAny(value) ==
    /\ parsed' = [value |-> value, result |-> from_any(value)]
    /\ UNCHANGED <<pipeline_vars, client, pager, shelf, resolver, bulk, slicer>>

NextStatus == \E value \in StatusInputs : CallFromAny(value)

SpecStatus == Init /\ [][NextStatus]_vars

----------------------------------------------------------------------------
(* resolve_missing_parts.py: main and reconcile_batch, statement by statement.
   conn is the connection main opens; db.insert_part and db.add_part_alias
   open a connection of their own ("helper"), write and commit.  The tables
   are the ones inventory_db.init_db creates: part_aliases(alias, design_id). *)

\* what resolve_missing_parts leaves alone
resolve_frame == <<catalog, pc, work, idx, items, last, runlog, rerun, outage, ingested, start,
                   client, pager, shelf, parsed, bulk, slicer>>

\* main: get_placeholders selects the column alias_id, which part_aliases
\* does not have
ResolveMain ==
    /\ pc = "idle"
    /\ resolver.at = "idle"
    /\ resolver' = [NoResolver EXCEPT !.fn = "main", !.at = "raised",
                                      !.error = "no such column: alias_id"]
    /\ UNCHANGED <<parts, part_aliases, inventory, durable, resolve_frame>>

\* reconcile_batch(conn, aliases) with the self-aliases of the store:
\* remote = bulk_parts_by_bricklink(aliases)
CallReconcileBatch(cat) ==
    /\ pc = "idle"
    /\ resolver.at = "idle"
    /\ get_placeholders(Store) # {}
    /\ \E remote \in bulk_parts_by_bricklink(cat, SeqOf(get_placeholders(Store))) :
           resolver' = [NoResolver EXCEPT !.fn = "reconcile_batch", !.at = "loop",
                                          !.items = remote]
    /\ UNCHANGED <<parts, part_aliases, inventory, durable, resolve_frame>>

\* a helper's statement asks for the write lock (pre: the committed tables
\* when the alias at hand was begun): it gets it, or it waits
\* busy_timeout for the transaction of conn, which the same thread cannot
\* end meanwhile, and fails
HelperExecute(at, next, pre) ==
    /\ resolver.at = at
    /\ IF "conn" \in resolver.writers
       THEN resolver' = [resolver EXCEPT !.at = "raised", !.waited = TRUE, !.pre = pre,
                                         !.error = "database is locked"]
       ELSE resolver' = [resolver EXCEPT !.at = next, !.writers = @ \cup {"helper"},
                                         !.pre = pre]
    /\ UNCHANGED <<parts, part_aliases, inventory, durable, resolve_frame>>

\* the helper's conn.commit()
HelperCommit(at, next, s) ==
    /\ resolver.at = at
    /\ SetStore(s)
    /\ durable' = s
    /\ resolver' = [resolver EXCEPT !.at = next, !.writers = @ \ {"helper"}, !.helped = @ + 1]
    /\ UNCHANGED resolve_frame

\* for alias, (rb_id, name) in remote.items(): db.insert_part(rb_id, name)
InsertPartExecute ==
    /\ resolver.items # <<>>
    /\ HelperExecute("loop", "insert_part", durable)

InsertPartCommit ==
    /\ resolver.items # <<>>
    /\ HelperCommit("insert_part", "add_part_alias",
                    insert_part(Store, Head(resolver.items).design_id, Head(resolver.items).name))

\* db.add_part_alias(alias, rb_id)
AddPartAliasExecute ==
    /\ resolver.items # <<>>
    /\ HelperExecute("add_part_alias", "alias_written", resolver.pre)

AddPartAliasCommit ==
    /\ resolver.items # <<>>
    /\ HelperCommit("alias_written", "relink",
                    add_part_alias(Store, Head(resolver.items).alias,
                                   Head(resolver.items).design_id))

\* conn.execute("UPDATE inventory ..."): conn begins its transaction
RelinkStep ==
    /\ resolver.at = "relink"
    /\ SetStore(RelinkInventory(Store, Head(resolver.items).design_id, Head(resolver.items).alias))
    /\ resolver' = [resolver EXCEPT !.at = "delete_part", !.writers = @ \cup {"conn"}]
    /\ UNCHANGED <<durable, resolve_frame>>

\* conn.execute("DELETE FROM parts WHERE design_id = ?", (alias,))
DeletePartStep ==
    /\ resolver.at = "delete_part"
    /\ SetStore(DeletePart(Store, Head(resolver.items).alias))
    /\ resolver' = [resolver EXCEPT !.at = "delete_alias", !.writers = @ \cup {"conn"}]
    /\ UNCHANGED <<durable, resolve_frame>>

\* the DELETE written with the column the table has: the loop goes on
DeleteAliasStep_alias ==
    /\ resolver.at = "delete_alias"
    /\ SetStore(DeleteSelfAlias(Store, Head(resolver.items).alias))
    /\ resolver' = [resolver EXCEPT !.at = "loop", !.items = Tail(@),
                                    !.writers = @ \cup {"conn"}]
    /\ UNCHANGED <<durable, resolve_frame>>

\* conn.execute("DELETE FROM part_aliases WHERE alias_id = ? AND design_id = ?"):
\* the statement is refused, reconcile_batch ends with the exception
DeleteAliasStep ==
    /\ resolver.at = "delete_alias"
    /\ resolver' = [resolver EXCEPT !.at = "raised", !.error = "no such column: alias_id"]
    /\ UNCHANGED <<parts, part_aliases, inventory, durable, resolve_frame>>

\* conn.commit() after the loop
ReconcileCommit ==
    /\ resolver.at = "loop"
    /\ resolver.items = <<>>
    /\ durable' = Store
    /\ resolver' = [resolver EXCEPT !.at = "returned", !.writers = @ \ {"conn"}]
    /\ UNCHANGED <<parts, part_aliases, inventory, resolve_frame>>

\* the with block of the caller ends: what conn has not committed is rolled back
ResolverExit ==
    /\ resolver.at \in {"raised", "returned"}
    /\ SetStore(durable)
    /\ resolver' = NoResolver
    /\ UNCHANGED <<durable, resolve_frame>>

NextResolve ==
    \/ /\ resolver.at = "idle"
       /\ \E alias \in IdUniverse, itemname \in ItemNames, quantity \in 1..MaxQty :
              LoadItem(alias, itemname, quantity)
    \/ ResolveMain
    \/ \E cat \in Catalogs : CallReconcileBatch(cat)
    \/ InsertPartExecute
    \/ InsertPartCommit
    \/ AddPartAliasExecute
    \/ AddPartAliasCommit
    \/ RelinkStep
    \/ DeletePartStep
    \/ DeleteAliasStep
    \/ ReconcileCommit
    \/ ResolverExit

SpecResolve == Init /\ [][NextResolve]_vars

----------------------------------------------------------------------------
(* bulk_parts_by_bricklink: mapping the items of one response *)

\* the identifiers a response item can carry as part_num
ResultPartNums == {<<"7">>, <<"7", "b">>}

\* the lists a response item can carry under external_ids["BrickLink"]
ResultBrickLink == {<<>>} \cup { <<b>> : b \in IdUniverse }

\* the items of data["results"]: each of the keys part_num, name and
\* external_ids is present or missing; a missing key carries no value
ResponseItems ==
    { p \in [has_part_num : BOOLEAN, part_num : ResultPartNums \cup {None},
             has_name : BOOLEAN, name : ApiNames \cup {""},
             has_external_ids : BOOLEAN, BrickLink : ResultBrickLink] :
        /\ p.has_part_num <=> p.part_num # None
        /\ p.has_name <=> p.name # ""
        /\ ~p.has_external_ids => p.BrickLink = <<>> }

\* the responses: data["results"] with up to MaxResults items
Responses == UNION { [1..n -> ResponseItems] : n \in 0..MaxResults }

\* an item all of whose expected keys are present
WellFormed(p) == p.has_part_num /\ p.has_name /\ p.has_external_ids

\* the loop over data["results"]: p["part_num"], p["name"] and
\* p["external_ids"] are subscripted, so the first item that lacks one of
\* them raises KeyError out of the function and the mapping built so far
\* is never returned
RECURSIVE MapResults(_, _)
MapResults(mapping, results) ==
    IF results = <<>> THEN [raised |-> "", mapping |-> mapping]
    ELSE LET p == Head(results)
         IN IF ~WellFormed(p) THEN [raised |-> "KeyError", mapping |-> <<>>]
            ELSE MapResults(DictOf(mapping,
                                   [i \in DOMAIN p.BrickLink |->
                                       [alias |-> p.BrickLink[i], design_id |-> p.part_num,
                                        name |-> p.name]]),
                            Tail(results))

\* the callers of bulk_parts_by_bricklink: reconcile_batch calls it bare,
\* the suffix-strip loop of main calls it inside try/except Exception
BulkCallers == {"reconcile_batch", "phase1c"}

\* one call: the response is mapped; an exception leaves reconcile_batch
\* and ends the run, the suffix-strip loop continues with its next alias
MapResponse(caller, results) ==
    LET out == MapResults(<<>>, results)
    IN  /\ bulk' = [caller |-> caller, results |-> results, raised |-> out.raised,
                    mapping |-> out.mapping,
                    aborted |-> (out.raised # "" /\ caller = "reconcile_batch")]
        /\ UNCHANGED <<pipeline_vars, client, pager, shelf, parsed, resolver, slicer>>

MapBulkResponse == \E caller \in BulkCallers, results \in Responses : MapResponse(caller, results)

NextBulk == MapBulkResponse

SpecBulk == Init /\ [][NextBulk]_vars

----------------------------------------------------------------------------
(* The callers' batch loops: for i in range(0, total, MAX_BATCH) *)

\* the loops that cut a list into batches for bulk_parts_by_bricklink:
\* Phase 1 and Phase 2 of clean_instabrick_inventory.main,
\* reconcile_numeric_unknowns, resolve_missing_parts.main and
\* _batch_translate_parts of the loader
BatchLoops == {"phase1", "numeric", "phase2", "resolve_missing_parts", "batch_translate"}

\* a list of n distinct identifiers, each named by its position
ListOf(n) == [k \in 1..n |-> k]

\* Python's l[lo : hi] for 0 <= lo <= hi
PySlice_through(l, lo, hi) == SubSeq(l, lo + 1, Min(hi + 1, Len(l)))

PySlice(l, lo, hi) == SubSeq(l, lo + 1, Min(hi, Len(l)))

\* the loop is entered with the list it is to cut
StartBatchLoop ==
    /\ slicer.at \in {"idle", "done"}
    /\ \E caller \in BatchLoops, total \in 0..MaxListLen :
          slicer' = [caller |-> caller, at |-> "loop", list |-> ListOf(total), i |-> 0,
                     slices |-> <<>>, raised |-> ""]
    /\ UNCHANGED <<pipeline_vars, client, pager, shelf, parsed, resolver, bulk>>

\* one iteration: chunk = list[i : i + MAX_BATCH] is handed to
\* bulk_parts_by_bricklink, whose assert refuses more than 50 identifiers
HandBatch ==
    /\ slicer.at = "loop"
    /\ slicer.i < Len(slicer.list)
    /\ LET chunk == PySlice(slicer.list, slicer.i, slicer.i + MAX_BATCH)
       IN  slicer' = IF Len(chunk) > MAX_BRICKLINK_IDS
                     THEN [slicer EXCEPT !.at = "done", !.raised = "AssertionError"]
                     ELSE [slicer EXCEPT !.slices = Append(@, chunk), !.i = @ + MAX_BATCH]
    /\ UNCHANGED <<pipeline_vars, client, pager, shelf, parsed, resolver, bulk>>

\* range(0, total, MAX_BATCH) is exhausted
EndBatchLoop ==
    /\ slicer.at = "loop"
    /\ slicer.i >= Len(slicer.list)
    /\ slicer' = [slicer EXCEPT !.at = "done"]
    /\ UNCHANGED <<pipeline_vars, client, pager, shelf, parsed, resolver, bulk>>

NextBatchLoop == StartBatchLoop \/ HandBatch \/ EndBatchLoop

SpecBatchLoop == Init /\ [][NextBatchLoop]_vars

----------------------------------------------------------------------------
(* Properties of the store and of the commit steps *)

\* every inventory row's design_id exists in parts
Integral(s) == \A i \in DOMAIN s.inventory : s.inventory[i].design_id \in DOMAIN s.parts

\* the commits of the cleaning script
Pipeline == {"bulk", "numeric", "strip", "direct"}

\* the state is the one right after a commit step of the Migration Committer
Committed == last.strategy \in Pipeline \cup {"csv"}

\* C1 - referential integrity: a full run of the cleaning script that started
\* from a store in which every inventory row's design_id exists in parts ends
\* with a store in which every inventory row's design_id exists in parts
C1_ReferentialIntegrity ==
    (pc = "done" /\ Integral(start)) => Integral(Store)

\* C2 - commit idempotence: for any store and any arguments, the steps of a
\* commit applied twice give the store that they give applied once
C2_CommitIdempotent ==
    \A alias \in IdUniverse, rb_id \in IdUniverse, name \in ApiNames :
        /\ reconcile_batch_commit(reconcile_batch_commit(Store, alias, rb_id, name), alias, rb_id, name)
              = reconcile_batch_commit(Store, alias, rb_id, name)
        /\ reconcile_numeric_commit(reconcile_numeric_commit(Store, alias, rb_id, name), alias, rb_id, name)
              = reconcile_numeric_commit(Store, alias, rb_id, name)
        /\ migrate(migrate(Store, alias, rb_id, name), alias, rb_id, name)
              = migrate(Store, alias, rb_id, name)

\* C3 - alias upgrade: after the commit of a mapping (alias, design_id) with
\* design_id different from alias, for an alias that was a placeholder,
\* part_aliases holds the row alias -> design_id
C3_AliasUpgrade ==
    (/\ Committed
     /\ last.design_id # last.alias
     /\ last.alias \in get_placeholders(last.pre))
    => (/\ last.alias \in DOMAIN part_aliases
        /\ part_aliases[last.alias] = last.design_id)

\* C4 - conservation: a commit of alias to a canonical design_id different
\* from the alias adds to the canonical's quantity exactly the quantity the
\* alias had, leaves none on the alias, and changes no other row
C4_Conservation ==
    (Committed /\ last.design_id # last.alias)
    => (/\ SumQty(inventory, last.design_id)
              = SumQty(last.pre.inventory, last.design_id) + SumQty(last.pre.inventory, last.alias)
        /\ SumQty(inventory, last.alias) = 0
        /\ Len(inventory) = Len(last.pre.inventory)
        /\ \A i \in DOMAIN inventory :
              /\ inventory[i].quantity = last.pre.inventory[i].quantity
              /\ last.pre.inventory[i].design_id # last.alias
                    => inventory[i].design_id = last.pre.inventory[i].design_id)

\* a commit has just moved a positive quantity onto a canonical part that
\* already had inventory of its own
C4_Witness ==
    /\ Committed
    /\ last.strategy \in Pipeline
    /\ last.design_id # last.alias
    /\ SumQty(last.pre.inventory, last.alias) > 0
    /\ SumQty(last.pre.inventory, last.design_id) > 0

\* C5 - crash safety: wherever a run that started from an integral store
\* stops, no inventory row of the durable store references a design_id that
\* is absent from parts
C5_CrashSafe ==
    (pc # "idle" /\ Integral(start)) => Integral(durable)

\* C6 - retry bound: one call of get_json sends at most MAX_RETRIES (5) HTTP
\* requests, whatever status codes the server answers with
C6_RetryBound ==
    client.sent <= 5

\* a call of get_json has failed on a retryable status after five requests
C6_Witness ==
    /\ client.fn = "get_json"
    /\ client.at = "raised"
    /\ client.sent = 5
    /\ client.status \in RETRY_STATUS

\* C7 - batch-size contract: a call of bulk_parts_by_bricklink with more than
\* 50 identifiers, or of bulk_parts with more than 100, ends in an error
\* without any request; and a list request always carries all the
\* identifiers of the call
C7_BatchSizeContract ==
    /\ ((client.fn = "bulk_parts_by_bricklink" /\ client.n > 50) \/
        (client.fn = "bulk_parts" /\ client.n > 100))
          => (/\ client.at = "raised"
              /\ client.error = "AssertionError"
              /\ client.lists = 0
              /\ client.singles = 0
              /\ client.sent = 0)
    /\ client.lists > 0 => client.listed = client.n

\* each of the two helpers has refused a list one longer than its limit
C7_Witness ==
    /\ client.at = "raised"
    /\ client.error = "AssertionError"
    /\ \/ (client.fn = "bulk_parts_by_bricklink" /\ client.n = 51)
       \/ (client.fn = "bulk_parts" /\ client.n = 101)

\* C8 - run idempotence: a second run on the store the first run left, with
\* the same external catalog, leaves parts, part_aliases and inventory as
\* they were when it started
C8_RunIdempotent ==
    rerun => Store = start

\* position of a strategy in the cascade
Rank(strategy) ==
    CASE strategy = "bulk" -> 1
      [] strategy = "numeric" -> 2
      [] strategy = "strip" -> 3
      [] strategy = "direct" -> 4

\* the bulk endpoint knows the identifier as a BrickLink id
BulkResolvable(a) == \E p \in DOMAIN catalog : a \in catalog[p].external_ids

\* C9 - first match wins: an alias that a strategy was given and committed is
\* committed by no later strategy of the same run, and at the end of a run
\* every placeholder the first strategy can resolve has the commits of the
\* first strategy only, each to a part that lists it as a BrickLink id
C9_FirstMatchWins ==
    /\ \A e1 \in runlog, e2 \in runlog :
          (e1.alias = e2.alias /\ e1.asked) => Rank(e2.strategy) <= Rank(e1.strategy)
    /\ pc = "done" =>
          \A a \in get_placeholders(start) :
              BulkResolvable(a) =>
                  /\ \E e \in runlog : e.alias = a /\ e.strategy = "bulk"
                  /\ \A e \in runlog :
                        e.alias = a => (e.strategy = "bulk" /\ a \in catalog[e.design_id].external_ids)

\* a finished run in which a placeholder with an unknown name was resolvable
\* by the bulk strategy and by the suffix-strip strategy as well
C9_Witness ==
    /\ pc = "done"
    /\ \E a \in get_placeholders(start) \cap get_unknown_design_ids(start) :
          /\ BulkResolvable(a)
          /\ strip_base_alias(a) \notin {None, a}
          /\ BulkResolvable(strip_base_alias(a))
          /\ \E e \in runlog : e.alias = a

\* a mapping of alias to another design_id that `from` holds is held by `to`
KeepsResolved(from, to) ==
    \A a \in DOMAIN from :
        from[a] # a => (a \in DOMAIN to /\ to[a] = from[a])

\* C10 - resolved aliases are terminal: no step of ingestion or of the
\* cleaning script changes or removes a row of part_aliases that maps an
\* alias to another design_id; this holds of the committed rows in every
\* step, and of the rows the connection sees in every step but a rollback
C10_ResolvedTerminal ==
    [][/\ KeepsResolved(durable.part_aliases, durable'.part_aliases)
       /\ pc' # "aborted" => KeepsResolved(part_aliases, part_aliases')]_vars

\* a commit of the cleaning script has just run for an alias that was mapped
\* to another design_id than the one the commit names
C10_Witness ==
    /\ last.strategy \in Pipeline
    /\ last.alias \in DOMAIN last.pre.part_aliases
    /\ last.pre.part_aliases[last.alias] \notin {last.alias, last.design_id}

\* the single-item endpoint answers 404 for the identifier
NotFound(a) == \A d \in get_part_json(catalog, a) : d.status = 404

\* a placeholder of the start of the run that no strategy of the run committed
\* and that the single-item endpoint does not know
Unresolved(a) ==
    /\ a \in get_placeholders(start)
    /\ \A e \in runlog : e.alias # a
    /\ NotFound(a)

\* C11 - unresolved alias is untouched: at the end of a run, a placeholder that
\* no strategy resolved is still a self-alias, its parts row is as it was at
\* the start, and every inventory row that was keyed by it is unchanged
C11_UnresolvedUntouched ==
    pc = "done" =>
        \A a \in IdUniverse :
            Unresolved(a) =>
                /\ a \in DOMAIN part_aliases /\ part_aliases[a] = a
                /\ (a \in DOMAIN parts) = (a \in DOMAIN start.parts)
                /\ a \in DOMAIN parts => parts[a] = start.parts[a]
                /\ \A i \in DOMAIN start.inventory :
                      start.inventory[i].design_id = a =>
                          (i \in DOMAIN inventory /\ inventory[i] = start.inventory[i])

\* a finished run that resolved some alias and left untouched a placeholder
\* with an unknown name and inventory of its own
C11_Witness ==
    /\ pc = "done"
    /\ runlog # {}
    /\ \E a \in IdUniverse :
          /\ Unresolved(a)
          /\ a \in get_unknown_design_ids(start)
          /\ SumQty(start.inventory, a) > 0

\* the catalog parts that list the identifier as a BrickLink id
PartsListing(a) == { p \in DOMAIN catalog : a \in catalog[p].external_ids }

\* a placeholder of the start of the run that only the suffix-stripping
\* strategy can resolve, and whose lookup did not fail
StripOnly(a) ==
    /\ a \in get_placeholders(start)
    /\ ~BulkResolvable(a)
    /\ strip_base_alias(a) \notin {None, a}
    /\ BulkResolvable(strip_base_alias(a))
    /\ <<"bulk", strip_base_alias(a)>> \notin outage

\* C12 - suffix stripping: at the end of a run, a placeholder that the bulk
\* and numeric strategies left unresolved and whose stripped base resolves to
\* c is mapped to c in part_aliases, and every inventory row that was keyed by
\* the alias is keyed by c
C12_SuffixStripping ==
    pc = "done" =>
        \A a \in IdUniverse :
            StripOnly(a) =>
                /\ a \in DOMAIN part_aliases
                /\ part_aliases[a] \in PartsListing(strip_base_alias(a))
                /\ \A i \in DOMAIN start.inventory :
                      start.inventory[i].design_id = a =>
                          inventory[i].design_id = part_aliases[a]

\* the last response ends the retries of get_json: an error status that is
\* not retried, or a retryable one at the last attempt
FinalError ==
    /\ client.fn \in {"get_json", "bulk_parts_by_bricklink"}
    /\ client.status >= 400
    /\ (client.status \notin RETRY_STATUS \/ client.sent >= MAX_RETRIES)

\* C13 - typed failure: when the retry ceiling is reached or the status is not
\* retryable, the call ends in a failure and returns no body; the failure is
\* NotFoundError for 404 and RemoteError for every other status
C13_TypedFailure ==
    FinalError =>
        /\ client.at = "raised"
        /\ client.error = (IF client.status = 404 THEN "NotFoundError" ELSE "RemoteError")

\* C13 as amended - when the retry ceiling is reached or the status is not
\* retryable, the call ends in requests.HTTPError carrying the status (404 as
\* every other) and returns no body; inside bulk_parts' fallback a 404 of
\* _single_part_name is no failure at all
C13_HTTPErrorFailure ==
    /\ FinalError => (client.at = "raised" /\ client.error = "HTTPError")
    /\ (client.fn = "bulk_parts" /\ client.pos >= 1 /\ client.at = "raised"
            /\ client.error = "HTTPError") => client.status # 404

\* get_json has failed on a 404 at its first request
C13_Witness ==
    /\ client.fn = "get_json"
    /\ client.at = "raised"
    /\ client.error = "HTTPError"
    /\ client.status = 404
    /\ client.sent = 1

\* the client sleeps after a 429 for the seconds of the Retry-After header
\* (5 when it is missing) and at most half a second more
WaitsRetryAfter ==
    (client.at = "sleep" /\ client.status = 429) =>
        /\ client.delay >= IntOf(retry_after(client.header)) * 1000
        /\ client.delay <= IntOf(retry_after(client.header)) * 1000 + 500

\* C14 - rate-limit handling: on a 429 the client waits for the delay of the
\* Retry-After header (5 seconds when absent) and retries once; no request is
\* retried a second time because of rate limiting
C14_RateLimitOnce ==
    /\ WaitsRetryAfter
    /\ client.limited <= 1

\* C14 as amended - on a 429 before the last attempt the client waits for the
\* seconds of an integer Retry-After header (5 when absent) plus a jitter of at
\* most half a second and retries; a 429 is retried like the other transient
\* statuses, up to MAX_RETRIES attempts in all, and fails the call only at the
\* last attempt; a header that is no integer ends the call in ValueError
C14_RateLimitRetries ==
    /\ WaitsRetryAfter
    /\ client.limited <= MAX_RETRIES - 1
    /\ (client.status = 429 /\ client.at = "raised" /\ client.error = "HTTPError")
          => client.sent = MAX_RETRIES
    /\ client.error = "ValueError"
          => (client.status = 429 /\ ~IsIntText(retry_after(client.header)))

\* the client sleeps for the default delay after its fourth 429 in a row
C14_Witness ==
    /\ client.at = "sleep"
    /\ client.status = 429
    /\ client.header = ""
    /\ client.limited = MAX_RETRIES - 1

\* the pages reached by following next from page i, and their results
RECURSIVE ChainFrom(_, _)
ChainFrom(pages, i) ==
    IF i = 0 THEN <<>> ELSE <<i>> \o ChainFrom(pages, pages[i].next)

RECURSIVE ResultsAlong(_, _)
ResultsAlong(pages, chain) ==
    IF chain = <<>> THEN <<>>
    ELSE pages[Head(chain)].results \o ResultsAlong(pages, Tail(chain))

\* C15 - pagination: when paginate ends, it has yielded exactly the
\* concatenation, in page order, of the results of the pages reached by
\* following next from the first page, has requested each of these pages once
\* and no other, and its last page is the first one without a next field
C15_Pagination ==
    pager.at = "done" =>
        LET chain == ChainFrom(pager.pages, 1)
        IN  /\ pager.yielded = ResultsAlong(pager.pages, chain)
            /\ Len(pager.fetched) = Len(chain)
            /\ \A k \in DOMAIN chain : pager.fetched[k].page = chain[k]
            /\ \A j, k \in DOMAIN pager.fetched :
                  pager.fetched[j].page = pager.fetched[k].page => j = k
            /\ pager.pages[pager.fetched[Len(pager.fetched)].page].next = 0
            /\ \A k \in 1..(Len(pager.fetched) - 1) :
                  pager.pages[pager.fetched[k].page].next # 0

\* paginate has ended after several requests, of pages that all had results,
\* on an endpoint with a page it did not reach
C15_Witness ==
    /\ pager.at = "done"
    /\ Len(pager.fetched) >= 2
    /\ Len(pager.pages) > Len(pager.fetched)
    /\ \A k \in DOMAIN pager.fetched : pager.pages[pager.fetched[k].page].results # <<>>
    /\ \E j, k \in DOMAIN pager.yielded : pager.yielded[j] # pager.yielded[k]

\* the last call was create_container with a name whose trimmed form is the
\* name of a non-deleted container of the same drawer
DuplicateLabelCall ==
    /\ shelf.result.op = "create_container"
    /\ \E i \in 1..Len(shelf.result.before.containers) :
           LET c == shelf.result.before.containers[i]
           IN  /\ ~c.deleted
               /\ c.drawer_id = shelf.result.drawer_id
               /\ c.name = strip(shelf.result.name)

\* C16 - duplicate label: create_container called with a name that, after
\* trimming, equals the name of a non-deleted container in the same drawer
\* raises DuplicateLabelError and adds neither a container row nor an audit
\* entry
C16_DuplicateLabel ==
    DuplicateLabelCall =>
        /\ shelf.result.raised = "DuplicateLabelError"
        /\ shelf.containers = shelf.result.before.containers
        /\ shelf.audit = shelf.result.before.audit

\* a duplicate label was refused although the name passed differs from the
\* stored one by a blank
C16_Witness ==
    /\ DuplicateLabelCall
    /\ shelf.result.name # strip(shelf.result.name)
    /\ shelf.result.raised = "DuplicateLabelError"
    /\ Len(shelf.audit) >= 1

\* the strings that stand for member k: its value, its name and its legacy
\* phrases, all in lower case
Spellings(k) ==
    {Status[k].value, lower(Status[k].name)}
    \cup (IF Status[k].member = "WIP" THEN {<<"w", "o", "r", "k", " ", "i", "n", " ", "p", "r", "o", "g", "r", "e", "s", "s">>} ELSE {})
    \cup (IF Status[k].member = "LOOSE" THEN {<<"l", "o", "o", "s", "e">>} ELSE {})
    \cup (IF Status[k].member = "IN_BOX" THEN {<<"i", "n", " ", "b", "o", "x">>} ELSE {})

\* the argument of the last call is member k itself or one of its spellings in
\* any letter case with any surrounding whitespace
Denotes(k) ==
    \/ parsed.value.type = "Status" /\ parsed.value.member = Status[k].member
    \/ /\ parsed.value.type = "str"
       /\ \E lead, trail \in 0..3 :
              /\ lead + trail <= Len(parsed.value.text)
              /\ \A i \in 1..lead : parsed.value.text[i] \in Whitespace
              /\ \A i \in (Len(parsed.value.text) - trail + 1)..Len(parsed.value.text) :
                     parsed.value.text[i] \in Whitespace
              /\ \E sp \in Spellings(k) :
                     /\ Len(sp) = Len(parsed.value.text) - lead - trail
                     /\ \A i \in 1..Len(sp) :
                            parsed.value.text[lead + i] \in {sp[i], upper(<<sp[i]>>)[1]}

\* C17 - status parsing: for every Status member m, Status.from_any returns m
\* when given m itself, or m.value, m.name or one of the legacy phrases
\* ('work in progress', 'loose', 'in box') in any letter case and with any
\* surrounding whitespace, and raises ValueError for every other input (empty
\* string, unknown string, None, number, container)
C17_StatusParsing ==
    parsed.value.type # "none" =>
        /\ \A k \in 1..Len(Status) :
               Denotes(k) => parsed.result = Returns(Status[k].member)
        /\ (~\E k \in 1..Len(Status) : Denotes(k)) => parsed.result = Raises("ValueError")

\* a name in mixed case with whitespace around it was parsed
C17_Witness ==
    /\ parsed.value.type = "str"
    /\ parsed.value.text = <<"\t", "I", "n", "_", "b", "o", "x", " ", "\n">>
    /\ parsed.result = Returns("IN_BOX")

\* C18 - guarded placeholder deletion: a commit deletes the parts row keyed by
\* the alias only when the alias differs from the design_id; when a strategy
\* resolves an alias to itself, the parts row keyed by that identifier still
\* exists after the commit
C18_GuardedDeletion ==
    /\ (Committed /\ last.design_id = last.alias) => last.alias \in DOMAIN parts
    /\ (Committed /\ last.alias \in DOMAIN last.pre.parts /\ last.alias \notin DOMAIN parts)
           => last.design_id # last.alias

\* C19 - placeholder fully removed: after an alias has been committed to a
\* design_id different from the alias, no inventory row has design_id equal
\* to the alias and parts has no row keyed by the alias
C19_PlaceholderRemoved ==
    (Committed /\ last.design_id # last.alias)
    => (/\ \A i \in DOMAIN inventory : inventory[i].design_id # last.alias
        /\ last.alias \notin DOMAIN parts)

\* the alias committed was a placeholder with a name of its own and with
\* inventory rows
C19_Witness ==
    /\ Committed
    /\ last.design_id # last.alias
    /\ last.alias \in DOMAIN last.pre.parts
    /\ last.pre.parts[last.alias] # UNKNOWN
    /\ \E i \in DOMAIN last.pre.inventory : last.pre.inventory[i].design_id = last.alias

LaterAliasAwaits ==
    /\ last.strategy \in Pipeline
    /\ last.alias \in Range(work)
    /\ last.design_id # last.alias
    /\ \/ pc \in {"p1_items", "p1b_items"} /\ items # <<>>
       \/ pc \in {"p1c", "p3"} /\ idx < Len(work)

\* the run is between two batches: at the head of a chunk loop, or done
BetweenBatches == pc \in {"p1", "p1b", "p2", "p3", "done"}

\* C21 - partial progress survives: every Migration Committer invocation is
\* followed by its own transaction commit, so if the run fails while a later
\* alias or batch is being processed, every migration completed before the
\* failure is still present in the store afterwards (the store a failure
\* leaves is the durable one)
C21_OwnCommit ==
    LaterAliasAwaits => durable = Store

\* C21 as amended - the transaction commit follows each chunk of Phase 1 and
\* of Phase 1b, the whole of Phase 1c and each alias of Phase 3: between two
\* batches, and after each alias of Phase 3, the durable store holds every
\* migration made so far
C21_BatchCommit ==
    (BetweenBatches \/ last.strategy = "direct") => durable = Store

\* a chunk that migrated an alias has been committed and the run goes on
C21_Witness ==
    /\ pc = "p1b"
    /\ \E e \in runlog : e.strategy = "bulk" /\ e.design_id # e.alias
    /\ durable # start
    /\ durable = Store

C23_NameProtection ==
    [][pc' # "aborted" =>
          \A d \in DOMAIN parts \cap DOMAIN parts' :
              parts[d] # UNKNOWN => (parts'[d] = parts[d] /\ parts'[d] # "")]_vars

\* a commit named a canonical part that already had another name of its own,
\* and the row kept it
C23_Witness ==
    /\ Committed
    /\ last.design_id # last.alias
    /\ last.design_id \in DOMAIN last.pre.parts
    /\ last.pre.parts[last.design_id] \notin {UNKNOWN, last.name}
    /\ last.name # ""
    /\ parts[last.design_id] = last.pre.parts[last.design_id]

\* the name-fill step (Phase 2) of the run has started: it has made a bulk
\* call, or the run is past it with parts that were still unnamed when it
\* began (the list of Phase 3 is a part of the list of Phase 2)
NameFillStarted ==
    \/ pc = "p2" /\ idx > 0
    \/ pc = "p3" /\ work # <<>>

\* C24 - name fill is terminal: the step that fills in names for parts still
\* named 'Unknown part' starts only after every resolution strategy of the
\* run has finished, and no resolution strategy runs (no alias is migrated)
\* after name fill has started
C24_NameFillTerminal ==
    [][NameFillStarted => runlog' \subseteq runlog]_vars


\* the last response had an item that lacks part_num, name or external_ids
MalformedItem == bulk.caller # "none" /\ \E i \in DOMAIN bulk.results : ~WellFormed(bulk.results[i])

\* C25: when an item of a bulk response lacks part_num, name or
\* external_ids, that item is skipped: the call does not raise, the
\* mapping is the one of the other items of the response, and the run
\* does not abort
C25_MalformedSkipped ==
    MalformedItem =>
        /\ bulk.raised = ""
        /\ ~bulk.aborted
        /\ bulk.mapping = MapResults(<<>>, SelectSeq(bulk.results, WellFormed)).mapping


\* the batches handed over so far, one after the other
RECURSIVE Flatten(_)
Flatten(ss) == IF ss = <<>> THEN <<>> ELSE Head(ss) \o Flatten(Tail(ss))

Batch == Range(Chunk(work, idx))

\* the rows keyed by identifiers outside the batch are as the last commit found them
OutsideUntouched ==
    \A d \in IdUniverse \ Batch :
        /\ d \in DOMAIN last.pre.parts =>
              (d \in DOMAIN parts /\ parts[d] = last.pre.parts[d])
        /\ \A i \in DOMAIN last.pre.inventory :
              last.pre.inventory[i].design_id = d => inventory[i] = last.pre.inventory[i]

\* C27: every alias reconcile_batch migrates is a member of the batch it
\* was given, and a commit of reconcile_batch neither rewrites nor deletes
\* a parts or inventory row keyed by an identifier outside the batch
C27_InsideBatch ==
    (pc = "p1_items" /\ last.strategy = "bulk") =>
        (last.alias \in Batch /\ OutsideUntouched)


\* every part_aliases row's design_id exists in parts
AliasIntegral(s) == \A a \in DOMAIN s.part_aliases : s.part_aliases[a] \in DOMAIN s.parts

\* C28: a run of the cascade that started from a store in which every
\* part_aliases row's design_id exists in parts leaves, after each of its
\* phases, a store in which every part_aliases row's design_id exists in parts
C28_AliasIntegrity ==
    (BetweenBatches /\ AliasIntegral(start)) => AliasIntegral(Store)


\* the operations on containers
ContainerOps == {"create_container", "update_container", "soft_delete_container",
                 "restore_container", "merge_move"}

\* no inventory row references a container whose deleted_at is set
NoneInDeleted(cs, held) ==
    \A k \in DOMAIN held : held[k] \in DOMAIN cs => ~cs[held[k]].deleted

\* C29: a container operation that finds no inventory row in a deleted
\* container leaves no inventory row in a deleted container
C29_NoInventoryInDeleted ==
    (/\ shelf.result.op \in ContainerOps
     /\ NoneInDeleted(shelf.result.before.containers, shelf.result.before.held))
        => NoneInDeleted(shelf.containers, shelf.held)


\* C30: no two non-deleted containers of the same drawer have the same name
C30_UniqueActiveLabels ==
    \A i, j \in DOMAIN shelf.containers :
        (/\ i # j
         /\ ~shelf.containers[i].deleted
         /\ ~shelf.containers[j].deleted
         /\ shelf.containers[i].drawer_id = shelf.containers[j].drawer_id)
            => shelf.containers[i].name # shelf.containers[j].name

\* a deleted container whose label an active container of its drawer has
\* taken was to be restored, and the restore was refused
C30_Witness ==
    /\ shelf.result.op = "restore_container"
    /\ shelf.result.raised = "IntegrityError"
    /\ \E i, j \in DOMAIN shelf.containers :
          /\ i = shelf.result.container_id
          /\ j # i
          /\ shelf.containers[i].deleted
          /\ ~shelf.containers[j].deleted
          /\ shelf.containers[i].drawer_id = shelf.containers[j].drawer_id
          /\ shelf.containers[i].name = shelf.containers[j].name

====
